---------------------------- MODULE Spec2Model ----------------------------
(***************************************************************************)
(* gitTrace (src/app.py): a Flask endpoint that checks the size of a       *)
(* GitHub repository, clones it into a temporary directory, renders its    *)
(* directory tree, reads every file and returns one text report.           *)
(*                                                                         *)
(* Strings are sequences of tokens.  A token stands for a run of           *)
(* characters that contains none of the separators the program searches    *)
(* for, and every separator character ("/", ".", newline) is a token of    *)
(* its own, so that Python's substring operations (split, in, rstrip)      *)
(* act on token sequences exactly as they act on the characters.           *)
(*                                                                         *)
(* Spec      one request, from analyze_repo's validation to its answer,    *)
(*           for every repository tree of at most MaxNodes entries.        *)
(* SpecConc  NRuns requests handled at the same time.                      *)
(* SpecUrl   clone_repo's URL and extract_repo_name_from_url, for every    *)
(*           locator of at most MaxUrlLen tokens after the host.           *)
(***************************************************************************)
EXTENDS Integers, Sequences, FiniteSets, TLC

VARIABLES
    repo_url,       \* SpecUrl: the locator handed to the URL functions
    suffix,         \* SpecUrl: the text appended after "/tree/"
    repo_name,      \* SpecUrl: <<>> or <<extract_repo_name_from_url(repo_url)>>
    repo_name_sub,  \* SpecUrl: the same for repo_url + "/tree/" + suffix
    clone_url,      \* SpecUrl: <<>> or <<the URL clone_repo gives git clone>>
    pc,             \* per request: where its handler stands
    request,        \* per request: the repo_url parameter, <<>> when missing
    sizes,          \* per request: the results of its get_repo_size calls
    temp_dir,       \* per request: the temporary directory it holds, 0 if none
    disk,           \* the temporary directories that exist, by name
    lines,          \* per request: get_directory_structure's list of lines
    directory_structure,    \* per request: the rendered tree
    file_contents,  \* per request: the items of the dict file_contents
    result,         \* per request: what generate_repo_analysis returned
    response,       \* per request: what analyze_repo answered
    git_clones      \* per request: how many times git clone was invoked

urlVars == <<repo_url, suffix, repo_name, repo_name_sub, clone_url>>
runVars == <<pc, request, sizes, temp_dir, disk, lines,
             directory_structure, file_contents, result, response, git_clones>>
vars == <<urlVars, runVars>>

-----------------------------------------------------------------------------
(* Bounds *)

MaxUrlLen == 3      \* tokens of a locator after "https://github.com/"
MaxSuffixLen == 1   \* tokens of the text appended after "/tree/"
MaxNodes == 3       \* files and directories of a cloned repository
NRuns == 2          \* concurrent requests

-----------------------------------------------------------------------------
(* Python string operations on token sequences *)

\* s[i:i+len(p)] == p
OccursAt(s, p, i) ==
    /\ i >= 1
    /\ i + Len(p) - 1 <= Len(s)
    /\ \A k \in 1..Len(p) : s[i + k - 1] = p[k]

\* s.find(p) + 1: the position of the first occurrence of p in s, 0 if none
Find(s, p) ==
    LET hits == {i \in 1..Len(s) : OccursAt(s, p, i)}
    IN  IF hits = {} THEN 0 ELSE CHOOSE i \in hits : \A j \in hits : i <= j

\* p in s
Contains(s, p) == Find(s, p) # 0

\* s.split(p)[0]
SplitFirst(s, p) ==
    LET i == Find(s, p)
    IN  IF i = 0 THEN s ELSE SubSeq(s, 1, i - 1)

\* s.rstrip(c) for a one-character c
RECURSIVE RStrip(_, _)
RStrip(s, c) ==
    IF Len(s) > 0 /\ s[Len(s)] = c THEN RStrip(SubSeq(s, 1, Len(s) - 1), c) ELSE s

\* s.split(c) for a one-character c: the list of the parts between the c's
RECURSIVE Split(_, _)
Split(s, c) ==
    LET i == Find(s, <<c>>)
    IN  IF i = 0 THEN <<s>>
        ELSE <<SubSeq(s, 1, i - 1)>> \o Split(SubSeq(s, i + 1, Len(s)), c)

\* s.split(c)[-1]
SplitLast(s, c) ==
    LET parts == Split(s, c)
    IN  parts[Len(parts)]

\* All token sequences over A of length at most n
RECURSIVE SeqsUpTo(_, _)
SeqsUpTo(A, n) ==
    IF n = 0 THEN {<<>>}
    ELSE SeqsUpTo(A, n - 1)
            \cup {Append(s, a) : s \in {t \in SeqsUpTo(A, n - 1) : Len(t) = n - 1}, a \in A}

-----------------------------------------------------------------------------
(* Requests and temporary directories *)

Runs == 1..NRuns

\* The names tempfile can give a temporary directory
TmpNames == 1..NRuns

\* No directory of that name
NoDir == [exists |-> FALSE, owner |-> 0, cloned |-> FALSE, tree |-> {}]

\* No request is being handled
NoRequests ==
    /\ pc = [r \in Runs |-> "off"]
    /\ request = [r \in Runs |-> <<>>]
    /\ sizes = [r \in Runs |-> <<>>]
    /\ temp_dir = [r \in Runs |-> 0]
    /\ disk = [n \in TmpNames |-> NoDir]
    /\ lines = [r \in Runs |-> <<>>]
    /\ directory_structure = [r \in Runs |-> <<>>]
    /\ file_contents = [r \in Runs |-> <<>>]
    /\ result = [r \in Runs |-> <<>>]
    /\ response = [r \in Runs |-> <<>>]
    /\ git_clones = [r \in Runs |-> 0]

-----------------------------------------------------------------------------
(* Locator Parser: clone_repo's URL and extract_repo_name_from_url *)

TreeMarker == <<"/", "tree", "/">>      \* "/tree/"
BlobMarker == <<"/", "blob", "/">>      \* "/blob/"

\* 'https://github.com/', the prefix analyze_repo requires (line 165)
GithubPrefix == <<"https:", "/", "/", "github", ".", "com", "/">>

UrlTokens == {"/", "tree", "blob", ".", "o"}

\* clone_repo, line 46: the URL handed to "git clone"
CloneUrl(url) == SplitFirst(url, TreeMarker)

\* extract_repo_name_from_url, lines 51-54
ExtractRepoName(url) ==
    LET u1 == SplitFirst(url, TreeMarker)
        u2 == SplitFirst(u1, BlobMarker)
        nm == SplitLast(RStrip(u2, "/"), "/")
    IN  IF Contains(nm, <<".">>) THEN SplitFirst(nm, <<".">>) ELSE nm

InitUrl ==
    /\ repo_url \in {GithubPrefix \o r : r \in SeqsUpTo(UrlTokens, MaxUrlLen)}
    /\ suffix \in SeqsUpTo(UrlTokens, MaxSuffixLen)
    /\ repo_name = <<>>
    /\ repo_name_sub = <<>>
    /\ clone_url = <<>>
    /\ NoRequests

\* extract_repo_name_from_url applied to the locator and to the locator
\* followed by "/tree/" and the suffix
ExtractName ==
    /\ repo_name = <<>>
    /\ repo_name' = <<ExtractRepoName(repo_url)>>
    /\ repo_name_sub' = <<ExtractRepoName(repo_url \o TreeMarker \o suffix)>>
    /\ UNCHANGED <<repo_url, suffix, clone_url, runVars>>

\* clone_repo applied to the locator
CloneRepoUrl ==
    /\ clone_url = <<>>
    /\ clone_url' = <<CloneUrl(repo_url)>>
    /\ UNCHANGED <<repo_url, suffix, repo_name, repo_name_sub, runVars>>

NextUrl == ExtractName \/ CloneRepoUrl

SpecUrl == InitUrl /\ [][NextUrl]_vars

-----------------------------------------------------------------------------
(* Snapshot: the file tree "git clone" leaves in clone_dir *)

\* File and directory names
DotGit == <<".", "git">>                    \* ".git"
DotGithub == <<".", "git", "hub">>          \* ".github"
DotGitignore == <<".", "git", "ignore">>    \* ".gitignore"
SrcName == <<"src">>
FName == <<"f">>

DirNames == {DotGit, DotGithub, SrcName}
FileNames == {DotGitignore, FName}

\* The order in which the file system lists the entries of a directory
ListingOrder == <<DotGit, DotGithub, DotGitignore, FName, SrcName>>

\* What open(..., encoding="utf-8").read() meets in a file: its text, or
\* the exception the read raises (MemoryError: the file does not fit in
\* memory)
FileData ==
    { [text |-> <<"line", "\n">>, err |-> "none"],
      [text |-> <<>>, err |-> "UnicodeDecodeError"],
      [text |-> <<>>, err |-> "OSError"],
      [text |-> <<>>, err |-> "MemoryError"] }

DirNode(p) == [path |-> p, kind |-> "dir", text |-> <<>>, err |-> "none"]
FileNode(p, d) == [path |-> p, kind |-> "file", text |-> d.text, err |-> d.err]

Paths(t) == {n.path : n \in t}
DirPaths(t) == {<<>>} \cup {n.path : n \in {m \in t : m.kind = "dir"}}

\* The trees with one more entry than t
Extend(t) ==
    {t \cup {DirNode(Append(p, nm))} :
        p \in DirPaths(t), nm \in DirNames}
    \cup
    {t \cup {FileNode(Append(p, nm), d)} :
        p \in DirPaths(t), nm \in FileNames, d \in FileData}

\* Every tree of at most n entries
RECURSIVE Snapshots(_)
Snapshots(n) ==
    IF n = 0 THEN {{}}
    ELSE LET prev == Snapshots(n - 1)
         IN  prev \cup {t \in UNION {Extend(s) : s \in prev} :
                            Cardinality(Paths(t)) = Cardinality(t)}

-----------------------------------------------------------------------------
(* Paths and text measures *)

\* clone_dir = os.path.join(temp_dir, repo_name), line 111.  The random part
\* of the temporary directory's name is one token; the repository name
\* never holds a "." (line 54).
CloneDirPath == <<"/", "tmp", "/", "tmpdir", "/", "repo">>

\* The names of p joined with os.sep
RECURSIVE JoinNames(_)
JoinNames(p) ==
    IF p = <<>> THEN <<>>
    ELSE IF Len(p) = 1 THEN p[1]
    ELSE p[1] \o <<"/">> \o JoinNames(Tail(p))

\* os.path.join(clone_dir, ...names of p)
AbsPath(p) == IF p = <<>> THEN CloneDirPath ELSE CloneDirPath \o <<"/">> \o JoinNames(p)

\* s.replace(p, "")
RECURSIVE Remove(_, _)
Remove(s, p) ==
    LET i == Find(s, p)
    IN  IF i = 0 THEN s
        ELSE SubSeq(s, 1, i - 1) \o Remove(SubSeq(s, i + Len(p), Len(s)), p)

\* s.count(c) for a one-character c
RECURSIVE Count(_, _)
Count(s, c) ==
    IF s = <<>> THEN 0 ELSE (IF Head(s) = c THEN 1 ELSE 0) + Count(Tail(s), c)

\* The number of characters a token stands for
CharLen(tok) ==
    CASE tok \in {"/", ".", "\n", "f", "]"} -> 1
      [] tok \in {"git", "hub", "src", "tmp"} -> 3
      [] tok \in {"    ", "|-- ", "line", "repo"} -> 4
      [] tok \in {"ignore", "tmpdir"} -> 6
      [] tok = "[Error reading file: " -> 21
      [] tok = "[Ignored .git directory]" -> 24
      [] tok = "[Errno 13] Permission denied" -> 28
      [] tok = "'utf-8' codec can't decode byte 0xff" -> 36

\* len(s)
RECURSIVE StrLen(_)
StrLen(s) == IF s = <<>> THEN 0 ELSE CharLen(Head(s)) + StrLen(Tail(s))

\* "\n".join(lines)
RECURSIVE JoinLines(_)
JoinLines(ls) ==
    IF ls = <<>> THEN <<>>
    ELSE IF Len(ls) = 1 THEN ls[1]
    ELSE ls[1] \o <<"\n">> \o JoinLines(Tail(ls))

\* The concatenation of a sequence of sequences
RECURSIVE Flatten(_)
Flatten(ss) == IF ss = <<>> THEN <<>> ELSE Head(ss) \o Flatten(Tail(ss))

-----------------------------------------------------------------------------
(* os.walk *)

NodeAt(t, p) == CHOOSE n \in t : n.path = p

\* The names of the entries of kind k directly inside directory p, in
\* listing order
Entries(t, p, k) ==
    SelectSeq(ListingOrder,
              LAMBDA nm : \E n \in t : n.path = Append(p, nm) /\ n.kind = k)

\* os.walk(top), top-down: one (root, dirs, files) triple per directory
\* visited.  The caller may remove names from dirs before the walk descends;
\* pruned is the set of names the caller removes.
RECURSIVE OsWalk(_, _, _)
OsWalk(t, p, pruned) ==
    LET dirs == SelectSeq(Entries(t, p, "dir"), LAMBDA d : d \notin pruned)
        sub == [i \in 1..Len(dirs) |-> OsWalk(t, Append(p, dirs[i]), pruned)]
    IN  <<[root |-> p, dirs |-> dirs, files |-> Entries(t, p, "file")]>> \o Flatten(sub)

-----------------------------------------------------------------------------
(* Tree Walker: get_directory_structure, lines 56-70 *)

\* " " * 4 * level
Indent(level) == [i \in 1..level |-> "    "]

\* Mutant of WalkerPruned: .git is not removed from dirs
NothingPruned == {}

\* The names get_directory_structure removes from dirs, lines 60-61
WalkerPruned == {DotGit}

\* The lines appended for one triple of the walk (lines 63-69).  Each line
\* carries, beside its text, the entry it was rendered for.  The token
\* "|-- " stands for the four characters of the branch mark.
TripleLines(w) ==
    LET root == AbsPath(w.root)
        level == Count(Remove(root, CloneDirPath), "/")
        dirLine == [text |-> Indent(level) \o <<"|-- ">>
                                \o SplitLast(root, "/") \o <<"/">>,
                    path |-> w.root, kind |-> "dir"]
        fileLine(nm) == [text |-> Indent(level + 1) \o <<"|-- ">> \o nm,
                         path |-> Append(w.root, nm), kind |-> "file"]
    IN  <<dirLine>> \o [i \in 1..Len(w.files) |-> fileLine(w.files[i])]

\* The list "lines" get_directory_structure builds for the tree t
TreeLines(t) ==
    LET walk == OsWalk(t, <<>>, WalkerPruned)
    IN  Flatten([i \in 1..Len(walk) |-> TripleLines(walk[i])])

\* The texts of the lines, joined (line 70)
Rendered(ls) == JoinLines([i \in 1..Len(ls) |-> ls[i].text])

-----------------------------------------------------------------------------
(* Content Extractor: read_file_contents and extract_all_files_contents *)

IgnoredSentinel == <<"[Ignored .git directory]">>

\* str(e) of the exception a read raises
ReadErrorText(err) ==
    IF err = "UnicodeDecodeError" THEN "'utf-8' codec can't decode byte 0xff"
    ELSE "[Errno 13] Permission denied"

ErrorSentinel(err) == <<"[Error reading file: ", ReadErrorText(err), "]">>

\* Mutant of CaughtOnRead: the except clause names UnicodeDecodeError alone
CaughtUnicodeOnly == {"UnicodeDecodeError"}

\* The exceptions read_file_contents catches, line 80
CaughtOnRead == {"UnicodeDecodeError", "OSError"}

\* read_file_contents, lines 72-81: the string returned, or the exception
\* that leaves the function
ReadFileContents(file_path, node) ==
    IF Contains(file_path, DotGit) THEN [content |-> IgnoredSentinel, raised |-> "none"]
    ELSE IF node.err = "none" THEN [content |-> node.text, raised |-> "none"]
    ELSE IF node.err \in CaughtOnRead
    THEN [content |-> ErrorSentinel(node.err), raised |-> "none"]
    ELSE [content |-> <<>>, raised |-> node.err]

\* Whether extract_all_files_contents skips the triple with this root,
\* line 87
SkipsRoot(root) == Contains(root, DotGit)

\* What one file adds to file_contents, lines 90-92
FileRecord(t, p) ==
    [path |-> JoinNames(p), node |-> p,
     content |-> ReadFileContents(AbsPath(p), NodeAt(t, p)).content,
     raised |-> ReadFileContents(AbsPath(p), NodeAt(t, p)).raised]

\* The entries one triple adds to file_contents, lines 87-92
TripleRecords(t, w) ==
    IF SkipsRoot(AbsPath(w.root)) THEN <<>>
    ELSE [i \in 1..Len(w.files) |-> FileRecord(t, Append(w.root, w.files[i]))]

\* extract_all_files_contents: the dict file_contents as the sequence of
\* its items in insertion order (every key is inserted once).  A record
\* with raised # "none" stands for an exception at that file, which ends
\* the loop.
ExtractAllFilesContents(t) ==
    Flatten([w \in 1..Len(OsWalk(t, <<>>, {})) |-> TripleRecords(t, OsWalk(t, <<>>, {})[w])])

\* The exception that ends the extraction, "none" if it returns
ExtractionRaises(recs) ==
    IF \E i \in 1..Len(recs) : recs[i].raised # "none"
    THEN recs[CHOOSE i \in 1..Len(recs) :
                /\ recs[i].raised # "none"
                /\ \A j \in 1..(i - 1) : recs[j].raised = "none"].raised
    ELSE "none"

-----------------------------------------------------------------------------
(* Report Assembler: generate_repo_analysis, lines 121-140 *)

RECURSIVE SumLines(_)
SumLines(fc) ==
    IF fc = <<>> THEN 0 ELSE Count(Head(fc).content, "\n") + SumLines(Tail(fc))

RECURSIVE SumChars(_)
SumChars(fc) ==
    IF fc = <<>> THEN 0 ELSE StrLen(Head(fc).content) + SumChars(Tail(fc))

\* Mutant of TotalLines: the file contents are left out of the total
TotalLinesTreeOnly(ds, fc) == Count(ds, "\n")

\* total_lines, lines 121-123
TotalLines(ds, fc) == Count(ds, "\n") + SumLines(fc)

\* total_chars, lines 124-126
TotalChars(ds, fc) == StrLen(ds) + SumChars(fc)

\* output_text, lines 129-138, by its parts
Report(size, ds, fc) ==
    [size |-> size,
     lines |-> TotalLines(ds, fc),
     chars |-> TotalChars(ds, fc),
     tree |-> ds,
     blocks |-> [i \in 1..Len(fc) |-> [path |-> fc[i].path, content |-> fc[i].content]]]

-----------------------------------------------------------------------------
(* Size Guard: get_repo_size, lines 12-42 *)

KBPerMB == 1024     \* line 35: size_mb = size / 1024
LimitMB == 100      \* lines 104 and 179: repo_size > 100

\* The sizes, in KB, the GitHub API reports: exactly the limit, and one KB
\* above it
ReportedSizes == {LimitMB * KBPerMB, LimitMB * KBPerMB + 1}

\* lines 15-17: the URL has an owner and a repository on github.com
UrlFormatOk(url) ==
    LET parts == Split(RStrip(url, "/"), "/")
    IN  ~(Len(parts) < 5 \/ parts[3] # <<"github", ".", "com">>)

\* The (size, error) pairs get_repo_size can return for url; size is in KB
\* (the code divides by 1024 and compares with 100), <<>> is None
GetRepoSize(url) ==
    IF ~UrlFormatOk(url)
    THEN {[size |-> <<>>, error |-> <<"Invalid GitHub URL format">>]}
    ELSE {[size |-> <<kb>>, error |-> <<>>] : kb \in ReportedSizes}
         \cup {[size |-> <<>>, error |-> <<"GitHub API error: 404 Not Found">>],
               [size |-> <<>>, error |-> <<"Connection error: timed out">>]}

\* Mutant of ExceedsLimit: the size is taken for megabytes already
SizeTakenAsMB(kb) == kb > LimitMB * KBPerMB * KBPerMB

\* repo_size > 100, with repo_size = kb / 1024
ExceedsLimit(kb) == kb > LimitMB * KBPerMB

\* Python's truth value of an optional string: None and "" are false
Truthy(e) == e # <<>> /\ e[1] # ""

-----------------------------------------------------------------------------
(* Lifecycle: tempfile.TemporaryDirectory, line 108 *)

\* Mutant of FreshNames: a fixed name, whether or not it exists
AnyName(d) == TmpNames

\* The names mkdtemp may choose: it creates the directory exclusively, so
\* never one that exists
FreshNames(d) == {n \in TmpNames : ~d[n].exists}

\* Mutant of RmTree: the directory is removed at the end of the try block
\* only, so an exception skips the removal
RmTreeOnReturnOnly(d, n, raised) == IF raised THEN d ELSE [d EXCEPT ![n] = NoDir]

\* TemporaryDirectory.__exit__: the directory and all it holds are removed,
\* however the block was left
RmTree(d, n, raised) == [d EXCEPT ![n] = NoDir]

\* str(e) for the exceptions the try block of generate_repo_analysis meets
StrOfException(e) ==
    CASE e = "CalledProcessError" -> "Command '['git', 'clone', ...]' returned non-zero exit status 128."
      [] e = "FileNotFoundError" -> "[Errno 2] No such file or directory: 'git'"
      [] e = "MemoryError" -> ""

CloneExceptions == {"CalledProcessError", "FileNotFoundError"}
BodyExceptions == {"MemoryError"}

-----------------------------------------------------------------------------
(* analyze_repo and generate_repo_analysis, one request r *)

Respond(r, status, err, content, download) ==
    response' = [response EXCEPT ![r] =
        <<[status |-> status, error |-> err, content |-> content, download |-> download]>>]

\* analyze_repo, lines 148-168: the parameter is there and starts with
\* 'https://github.com/'
Validate(r) ==
    /\ pc[r] = "start"
    /\ IF request[r] = <<>>
       THEN /\ Respond(r, 400, <<"Missing repo_url parameter">>, <<>>, FALSE)
            /\ pc' = [pc EXCEPT ![r] = "done"]
       ELSE IF ~OccursAt(request[r], GithubPrefix, 1)
       THEN /\ Respond(r, 400, <<"Invalid GitHub URL">>, <<>>, FALSE)
            /\ pc' = [pc EXCEPT ![r] = "done"]
       ELSE /\ pc' = [pc EXCEPT ![r] = "preflight"]
            /\ UNCHANGED response
    /\ UNCHANGED <<urlVars, request, sizes, temp_dir, disk, lines,
                   directory_structure, file_contents, result, git_clones>>

\* analyze_repo, lines 171-185: the first size check
Preflight(r) ==
    /\ pc[r] = "preflight"
    /\ \E res \in GetRepoSize(request[r]) :
        /\ sizes' = [sizes EXCEPT ![r] = Append(@, res)]
        /\ IF Truthy(res.error)
           THEN /\ Respond(r, 400, res.error, <<>>, FALSE)
                /\ pc' = [pc EXCEPT ![r] = "done"]
           ELSE IF ExceedsLimit(res.size[1])
           THEN /\ Respond(r, 413, <<"Repository size exceeds the 100 MB limit">>, <<>>, FALSE)
                /\ pc' = [pc EXCEPT ![r] = "done"]
           ELSE /\ pc' = [pc EXCEPT ![r] = "gen"]
                /\ UNCHANGED response
    /\ UNCHANGED <<urlVars, request, temp_dir, disk, lines,
                   directory_structure, file_contents, result, git_clones>>

\* generate_repo_analysis, lines 98-105: the second size check
SizeCheck(r) ==
    /\ pc[r] = "gen"
    /\ \E res \in GetRepoSize(request[r]) :
        /\ sizes' = [sizes EXCEPT ![r] = Append(@, res)]
        /\ IF Truthy(res.error)
           THEN /\ result' = [result EXCEPT ![r] = <<[report |-> <<>>, error |-> res.error]>>]
                /\ pc' = [pc EXCEPT ![r] = "ret"]
           ELSE IF ExceedsLimit(res.size[1])
           THEN /\ result' = [result EXCEPT ![r] =
                        <<[report |-> <<>>,
                           error |-> <<"Repository size exceeds the 100 MB limit">>]>>]
                /\ pc' = [pc EXCEPT ![r] = "ret"]
           ELSE /\ pc' = [pc EXCEPT ![r] = "with"]
                /\ UNCHANGED result
    /\ UNCHANGED <<urlVars, request, temp_dir, disk, lines,
                   directory_structure, file_contents, response, git_clones>>

\* line 108: the with block is entered, the temporary directory created
EnterWith(r) ==
    /\ pc[r] = "with"
    /\ \E n \in FreshNames(disk) :
        /\ temp_dir' = [temp_dir EXCEPT ![r] = n]
        /\ disk' = [disk EXCEPT ![n] =
                        [exists |-> TRUE, owner |-> r, cloned |-> FALSE, tree |-> {}]]
    /\ pc' = [pc EXCEPT ![r] = "clone"]
    /\ UNCHANGED <<urlVars, request, sizes, lines, directory_structure,
                   file_contents, result, response, git_clones>>

\* The try block is left by return or by an exception: the except clause
\* turns the exception into the error (line 143), the with block removes
\* the temporary directory, and generate_repo_analysis returns, which ends
\* its local variables.
LeaveWith(r, report, error, raised) ==
    /\ result' = [result EXCEPT ![r] = <<[report |-> report, error |-> error]>>]
    /\ disk' = RmTree(disk, temp_dir[r], raised)
    /\ lines' = [lines EXCEPT ![r] = <<>>]
    /\ directory_structure' = [directory_structure EXCEPT ![r] = <<>>]
    /\ file_contents' = [file_contents EXCEPT ![r] = <<>>]
    /\ pc' = [pc EXCEPT ![r] = "ret"]

\* lines 110-114: git clone succeeds and leaves one of the repositories of
\* repos in clone_dir
CloneFrom(r, repos) ==
    /\ pc[r] = "clone"
    /\ git_clones' = [git_clones EXCEPT ![r] = @ + 1]
    /\ \E t \in repos :
        disk' = [disk EXCEPT ![temp_dir[r]] =
                    [exists |-> TRUE, owner |-> r, cloned |-> TRUE, tree |-> t]]
    /\ pc' = [pc EXCEPT ![r] = "walk"]
    /\ UNCHANGED <<urlVars, request, sizes, temp_dir, lines,
                   directory_structure, file_contents, result, response>>

\* Any repository of at most MaxNodes entries
AllSnapshots == Snapshots(MaxNodes)

Clone(r) == CloneFrom(r, AllSnapshots)

\* lines 110-114, 142-143: git clone fails (non-zero exit, or no git)
CloneFails(r) ==
    /\ pc[r] = "clone"
    /\ git_clones' = [git_clones EXCEPT ![r] = @ + 1]
    /\ \E e \in CloneExceptions : LeaveWith(r, <<>>, <<StrOfException(e)>>, TRUE)
    /\ UNCHANGED <<urlVars, request, sizes, temp_dir, response>>

\* The tree in the clone directory of the temporary directory n; os.walk
\* yields nothing for a directory that is not there
CloneDirTree(d, n) == IF d[n].exists /\ d[n].cloned THEN <<d[n].tree>> ELSE <<>>

\* line 117: get_directory_structure(clone_dir)
Walk(r) ==
    /\ pc[r] = "walk"
    /\ LET here == CloneDirTree(disk, temp_dir[r])
       IN  lines' = [lines EXCEPT ![r] = IF here = <<>> THEN <<>> ELSE TreeLines(here[1])]
    /\ directory_structure' = [directory_structure EXCEPT ![r] = Rendered(lines'[r])]
    /\ pc' = [pc EXCEPT ![r] = "extract"]
    /\ UNCHANGED <<urlVars, request, sizes, temp_dir, disk,
                   file_contents, result, response, git_clones>>

\* What extract_all_files_contents finds in the temporary directory n
Extracted(d, n) ==
    IF CloneDirTree(d, n) = <<>> THEN <<>>
    ELSE ExtractAllFilesContents(CloneDirTree(d, n)[1])

\* line 118: extract_all_files_contents(clone_dir); an exception that
\* read_file_contents does not catch leaves the try block (lines 142-143)
Extract(r) ==
    /\ pc[r] = "extract"
    /\ \E recs \in {Extracted(disk, temp_dir[r])} :
        \E e \in {ExtractionRaises(recs)} :
            IF e = "none"
            THEN /\ file_contents' = [file_contents EXCEPT ![r] =
                        [i \in 1..Len(recs) |->
                            [path |-> recs[i].path, node |-> recs[i].node,
                             content |-> recs[i].content]]]
                 /\ pc' = [pc EXCEPT ![r] = "assemble"]
                 /\ UNCHANGED <<disk, lines, directory_structure, result>>
            ELSE LeaveWith(r, <<>>, <<StrOfException(e)>>, TRUE)
    /\ UNCHANGED <<urlVars, request, sizes, temp_dir, response, git_clones>>

\* lines 121-140: the totals and the report; the block is left by return
Assemble(r) ==
    /\ pc[r] = "assemble"
    /\ LeaveWith(r, <<Report(sizes[r][Len(sizes[r])].size[1],
                             directory_structure[r], file_contents[r])>>, <<>>, FALSE)
    /\ UNCHANGED <<urlVars, request, sizes, temp_dir, response, git_clones>>

\* lines 117, 121-140, 142-143: the walk or the assembly raises (the process
\* runs out of memory on a large tree or report)
BodyRaises(r) ==
    /\ pc[r] \in {"walk", "assemble"}
    /\ \E e \in BodyExceptions : LeaveWith(r, <<>>, <<StrOfException(e)>>, TRUE)
    /\ UNCHANGED <<urlVars, request, sizes, temp_dir, response, git_clones>>

\* analyze_repo, lines 188-214: the answer
Answer(r) ==
    /\ pc[r] = "ret"
    /\ IF Truthy(result[r][1].error)
       THEN Respond(r, 500, result[r][1].error, <<>>, FALSE)
       ELSE \E download \in BOOLEAN :
                Respond(r, 200, <<>>, result[r][1].report, download)
    /\ pc' = [pc EXCEPT ![r] = "done"]
    /\ UNCHANGED <<urlVars, request, sizes, temp_dir, disk, lines,
                   directory_structure, file_contents, result, git_clones>>

\* The steps of request r but for a successful clone
Step(r) ==
    \/ Validate(r)
    \/ Preflight(r)
    \/ SizeCheck(r)
    \/ EnterWith(r)
    \/ CloneFails(r)
    \/ Walk(r)
    \/ Extract(r)
    \/ Assemble(r)
    \/ BodyRaises(r)
    \/ Answer(r)

NextRun == \E r \in Runs : Step(r) \/ Clone(r)

UrlsIdle ==
    /\ repo_url = <<>>
    /\ suffix = <<>>
    /\ repo_name = <<>>
    /\ repo_name_sub = <<>>
    /\ clone_url = <<>>

\* The repo_url parameters of the requests: missing, not on github.com over
\* https, without a repository, and a repository
RequestUrls ==
    { <<>>,
      <<"http:", "/", "/", "github", ".", "com", "/", "o", "/", "repo">>,
      GithubPrefix \o <<"o">>,
      GithubPrefix \o <<"o", "/", "repo">> }

\* One request
Init ==
    /\ UrlsIdle
    /\ pc = [r \in Runs |-> IF r = 1 THEN "start" ELSE "off"]
    /\ \E u \in RequestUrls : request = [r \in Runs |-> IF r = 1 THEN u ELSE <<>>]
    /\ sizes = [r \in Runs |-> <<>>]
    /\ temp_dir = [r \in Runs |-> 0]
    /\ disk = [n \in TmpNames |-> NoDir]
    /\ lines = [r \in Runs |-> <<>>]
    /\ directory_structure = [r \in Runs |-> <<>>]
    /\ file_contents = [r \in Runs |-> <<>>]
    /\ result = [r \in Runs |-> <<>>]
    /\ response = [r \in Runs |-> <<>>]
    /\ git_clones = [r \in Runs |-> 0]

Spec == Init /\ [][NextRun]_vars

-----------------------------------------------------------------------------
(* Concurrent requests *)

\* The repositories the concurrent requests clone
ConcSnapshots ==
    { {}, {FileNode(<<FName>>, [text |-> <<"line", "\n">>, err |-> "none"])} }

CloneSmall(r) == CloneFrom(r, ConcSnapshots)

\* NRuns requests for the same repository, handled at the same time
InitConc ==
    /\ UrlsIdle
    /\ pc = [r \in Runs |-> "start"]
    /\ request = [r \in Runs |-> GithubPrefix \o <<"o", "/", "repo">>]
    /\ sizes = [r \in Runs |-> <<>>]
    /\ temp_dir = [r \in Runs |-> 0]
    /\ disk = [n \in TmpNames |-> NoDir]
    /\ lines = [r \in Runs |-> <<>>]
    /\ directory_structure = [r \in Runs |-> <<>>]
    /\ file_contents = [r \in Runs |-> <<>>]
    /\ result = [r \in Runs |-> <<>>]
    /\ response = [r \in Runs |-> <<>>]
    /\ git_clones = [r \in Runs |-> 0]

NextConc == \E r \in Runs : Step(r) \/ CloneSmall(r)

SpecConc == InitConc /\ [][NextConc]_vars

-----------------------------------------------------------------------------
(* Properties *)

Files(t) == {n \in t : n.kind = "file"}

\* The path has the directory name .git as one of its segments
HasGitSegment(p) == \E k \in 1..Len(p) : p[k] = DotGit

Parent(p) == SubSeq(p, 1, Len(p) - 1)

Range(f) == {f[i] : i \in DOMAIN f}

\* The request is inside the with block, its temporary directory in use
InWith(r) == pc[r] \in {"clone", "walk", "extract", "assemble"}

Returned(r) == pc[r] \in {"ret", "done"} /\ result[r] # <<>>

\* C1: once generate_repo_analysis has returned from a run that created a
\* temporary directory, no directory of that run is left on disk, whether
\* the run ended with a report, a failed clone or an exception.
C1_TempDirRemoved ==
    \A r \in Runs :
        (Returned(r) /\ temp_dir[r] # 0) =>
            \A n \in TmpNames : ~(disk[n].exists /\ disk[n].owner = r)

\* A run whose try block was left by an exception has returned
C1_Witness ==
    \E r \in Runs :
        /\ Returned(r)
        /\ temp_dir[r] # 0
        /\ git_clones[r] = 1
        /\ result[r][1].report = <<>>

\* C2: git clone is invoked only after two size checks of which the second,
\* the one inside generate_repo_analysis, returned no error and at most
\* 100 MB; a run in which any size check returned an error or more than
\* 100 MB creates no temporary directory and never invokes git clone.
C2_CloneOnlyAfterSizeCheck ==
    \A r \in Runs :
        /\ git_clones[r] > 0 =>
            /\ Len(sizes[r]) = 2
            /\ sizes[r][2].error = <<>>
            /\ sizes[r][2].size[1] <= LimitMB * KBPerMB
        /\ (\E i \in 1..Len(sizes[r]) :
                \/ sizes[r][i].error # <<>>
                \/ sizes[r][i].size[1] > LimitMB * KBPerMB) =>
            /\ temp_dir[r] = 0
            /\ git_clones[r] = 0

\* The pre-flight check passed, the second check found the repository too
\* large, and the run has returned
C2_Witness ==
    \E r \in Runs :
        /\ Returned(r)
        /\ Len(sizes[r]) = 2
        /\ sizes[r][1].size = <<LimitMB * KBPerMB>>
        /\ sizes[r][2].size = <<LimitMB * KBPerMB + 1>>

\* The files extract_all_files_contents enumerates: those of the
\* directories whose path it does not skip
Enumerated(t) == {n \in Files(t) : ~Contains(AbsPath(Parent(n.path)), DotGit)}

\* The tree t with file n readable
MadeReadable(t, n) ==
    (t \ {n}) \cup {[n EXCEPT !.text = <<"line", "\n">>, !.err = "none"]}

\* The records of the files other than p
OtherRecords(recs, p) ==
    SelectSeq([i \in 1..Len(recs) |->
                    [path |-> recs[i].path, node |-> recs[i].node,
                     content |-> recs[i].content]],
              LAMBDA x : x.node # p)

\* C3: a UnicodeDecodeError or OSError on a file never aborts the
\* extraction; the extraction returns one record for every file it
\* enumerates, holding the file's text or a sentinel string, and the
\* records of the other files are what they would be were the failing file
\* readable.
C3_ReadFailureIsRecorded ==
    \A r \in Runs :
        /\ pc[r] = "extract" =>
            \A tr \in Range(CloneDirTree(disk, temp_dir[r])) :
                (\A n \in Enumerated(tr) :
                    n.err \in {"none", "UnicodeDecodeError", "OSError"}) =>
                    ExtractionRaises(ExtractAllFilesContents(tr)) = "none"
        /\ pc[r] = "assemble" =>
            \A tr \in Range(CloneDirTree(disk, temp_dir[r])) :
                /\ Len(file_contents[r]) = Cardinality(Enumerated(tr))
                /\ {x.node : x \in Range(file_contents[r])}
                        = {n.path : n \in Enumerated(tr)}
                /\ \A x \in Range(file_contents[r]) :
                        \/ x.content = IgnoredSentinel
                        \/ /\ NodeAt(tr, x.node).err = "none"
                           /\ x.content = NodeAt(tr, x.node).text
                        \/ /\ NodeAt(tr, x.node).err # "none"
                           /\ x.content = ErrorSentinel(NodeAt(tr, x.node).err)
                /\ \A n \in Enumerated(tr) :
                        n.err # "none" =>
                            OtherRecords(ExtractAllFilesContents(MadeReadable(tr, n)), n.path)
                                = OtherRecords(file_contents[r], n.path)

\* The extraction returned with an error sentinel for one file and the
\* text of another
C3_Witness ==
    \E r \in Runs :
        /\ pc[r] = "assemble"
        /\ \E x, y \in Range(file_contents[r]) :
            /\ x.content = ErrorSentinel("OSError")
            /\ y.content = <<"line", "\n">>

\* C4: every file whose relative path has no segment named .git has a
\* record that holds its text or its read-error sentinel.
C4_EveryFileOutsideGitIsRead ==
    \A r \in Runs :
        pc[r] = "assemble" =>
            \A tr \in Range(CloneDirTree(disk, temp_dir[r])) :
                \A n \in Files(tr) :
                    ~HasGitSegment(n.path) =>
                        \E x \in Range(file_contents[r]) :
                            /\ x.node = n.path
                            /\ x.content = IF n.err = "none" THEN n.text
                                           ELSE ErrorSentinel(n.err)

\* C5: the URL clone_repo passes to git clone contains neither "/tree/" nor
\* "/blob/".
C5_CloneUrlHasNoSubPath ==
    clone_url # <<>> =>
        /\ ~Contains(clone_url[1], TreeMarker)
        /\ ~Contains(clone_url[1], BlobMarker)

\* C6: extract_repo_name_from_url(u + "/tree/" + x) equals
\* extract_repo_name_from_url(u) for every u and x.
C6_TreeSuffixIgnored ==
    repo_name # <<>> => repo_name_sub = repo_name

\* C7: the report's Lines value is the number of newlines of the rendered
\* tree plus those of the content of every file block, and its Characters
\* value the length of the tree plus the lengths of those contents,
\* sentinels included.
C7_TotalsMatchReport ==
    \A r \in Runs :
        (Returned(r) /\ result[r][1].report # <<>>) =>
            /\ result[r][1].report[1].lines
                = Count(result[r][1].report[1].tree, "\n")
                    + SumLines(result[r][1].report[1].blocks)
            /\ result[r][1].report[1].chars
                = StrLen(result[r][1].report[1].tree)
                    + SumChars(result[r][1].report[1].blocks)

\* A report with a text block, a sentinel block and a tree of several lines
C7_Witness ==
    \E r \in Runs :
        /\ Returned(r)
        /\ result[r][1].report # <<>>
        /\ Count(result[r][1].report[1].tree, "\n") >= 2
        /\ \E x, y \in Range(result[r][1].report[1].blocks) :
            /\ x.content = <<"line", "\n">>
            /\ y.content \in {IgnoredSentinel, ErrorSentinel("UnicodeDecodeError")}

\* C8: generate_repo_analysis returns a report or an error, never both and
\* never neither, and whenever it returns no report analyze_repo answers
\* with an error response that holds no report text.
C8_ReportOrError ==
    \A r \in Runs :
        /\ Returned(r) => (result[r][1].report = <<>>) # (result[r][1].error = <<>>)
        /\ (pc[r] = "done" /\ result[r] # <<>> /\ result[r][1].report = <<>>) =>
            /\ response[r][1].status >= 400
            /\ response[r][1].error # <<>>
            /\ response[r][1].content = <<>>

\* C9: a request enters the with block with a directory that did not exist,
\* no two requests inside the with block hold the same directory, and a
\* step of one request leaves the directory of every other request inside
\* the with block as it was.
C9_Step ==
    /\ \A r \in Runs :
        (temp_dir[r] = 0 /\ temp_dir'[r] # 0) => ~disk[temp_dir'[r]].exists
    /\ \A r, s \in Runs :
        (r # s /\ InWith(r)' /\ InWith(s)') => temp_dir'[r] # temp_dir'[s]
    /\ \A s \in Runs :
        (InWith(s) /\ pc'[s] = pc[s]) => disk'[temp_dir[s]] = disk[temp_dir[s]]

C9_IsolatedTempDirs == [][C9_Step]_vars

\* One request has returned and removed its directory while another is
\* still walking or extracting its clone
C9_Witness ==
    \E r, s \in Runs :
        /\ r # s
        /\ Returned(r)
        /\ temp_dir[r] # 0
        /\ pc[s] \in {"walk", "extract"}
        /\ disk[temp_dir[s]].cloned

\* C10: the rendered tree has exactly one line for the root and for every
\* directory and file that is neither a .git directory nor inside one, each
\* indented by its depth, and no line for anything else.
C10_GitDirNotRendered ==
    \A r \in Runs :
        pc[r] = "extract" =>
            \A tr \in Range(CloneDirTree(disk, temp_dir[r])) :
                /\ {<<l.path, l.kind>> : l \in Range(lines[r])}
                    = {<<<<>>, "dir">>}
                        \cup {<<n.path, n.kind>> : n \in {m \in tr : ~HasGitSegment(m.path)}}
                /\ Len(lines[r])
                    = 1 + Cardinality({m \in tr : ~HasGitSegment(m.path)})
                /\ \A l \in Range(lines[r]) :
                    l.text = Indent(Len(l.path)) \o <<"|-- ">>
                                \o (IF l.path = <<>> THEN <<"repo">> ELSE l.path[Len(l.path)])
                                \o (IF l.kind = "dir" THEN <<"/">> ELSE <<>>)
                /\ Count(directory_structure[r], "\n") = Len(lines[r]) - 1

\* The walk rendered a repository with a file inside a .git directory that
\* lies in a subdirectory
C10_Witness ==
    \E r \in Runs :
        /\ pc[r] = "extract"
        /\ \E n \in disk[temp_dir[r]].tree :
            /\ Len(n.path) = 3
            /\ n.path[2] = DotGit
            /\ n.kind = "file"

=============================================================================
